---- MODULE Spec2Model ----
(***************************************************************************)
(* Model of the group-listing service of src/server.js: a single JSON      *)
(* document (db.json) read and overwritten as a whole through lowdb, an    *)
(* uploads directory filled by the multer middleware, and two routes,      *)
(* GET /api/groups (list/search) and POST /api/groups (create).            *)
(*                                                                         *)
(* Strings are sequences of one-character strings, so that toLowerCase,    *)
(* includes and startsWith are computed rather than assumed.  The document *)
(* on disk is JSON text, modelled as a sequence of tuples (one per record, *)
(* fields in the order the handler writes them); db.data holds records.    *)
(* Each await of a handler is an interleaving point: the file read of      *)
(* db.read(), the continuation after it, and the completion of db.write(). *)
(* db.data, the field of the shared Low instance, is assigned from the     *)
(* file read at the start of every continuation and is not read before     *)
(* that assignment, so it is a value local to the step (d, pushed) and not *)
(* a variable.  The two Date.now() calls that build a record run in one    *)
(* synchronous step and read the same millisecond.                         *)
(***************************************************************************)
EXTENDS Integers, Sequences, FiniteSets, TLC

\* ---------------------------------------------------------------- bounds
MaxClock == 2
MaxGroups == 2

Reqs == {1, 2}

\* ---------------------------------------------------------------- strings
PREFIX ==
  <<"h","t","t","p","s",":","/","/","c","h","a","t",".",
    "w","h","a","t","s","a","p","p",".","c","o","m","/">>

Lower(c) ==
  CASE c = "A" -> "a"
    [] c = "B" -> "b"
    [] c = "K" -> "k"
    [] OTHER -> c

toLowerCase(s) == [i \in 1..Len(s) |-> Lower(s[i])]

includes(s, q) ==
  \E i \in 1..(Len(s) - Len(q) + 1) : SubSeq(s, i, i + Len(q) - 1) = q

startsWith_Omitted(s, p) == TRUE

startsWith(s, p) == Len(s) >= Len(p) /\ SubSeq(s, 1, Len(p)) = p

\* ---------------------------------------------------------------- inputs
LINK == PREFIX \o <<"X">>
BADLINK ==
  <<"h","t","t","p",":","/","/","c","h","a","t",".",
    "w","h","a","t","s","a","p","p",".","c","o","m","/","X">>

Queries == { <<>>, <<"a","B">>, <<"A","k">> }

\* req.body: a form field that was not sent is not in the domain
Field(body, k) == IF k \in DOMAIN body THEN body[k] ELSE <<>>
Falsy(body, k) == k \notin DOMAIN body \/ body[k] = <<>>

MissingField_UserOnly(body) == Falsy(body, "username")

\* !username || !groupName || !groupLink
MissingField(body) ==
  Falsy(body, "username") \/ Falsy(body, "groupName") \/ Falsy(body, "groupLink")

ValidBodies ==
  { [username |-> <<"B","o">>, groupName |-> <<"K","a","b">>, groupLink |-> LINK],
    [username |-> <<"a","k">>, groupName |-> <<"b","O">>, groupLink |-> LINK] }

InvalidBodies ==
  { [groupName |-> <<"b","O">>, groupLink |-> LINK],
    [username |-> <<>>, groupName |-> <<"b","O">>, groupLink |-> BADLINK],
    [username |-> <<"B","o">>, groupName |-> <<"b","O">>, groupLink |-> <<>>],
    [username |-> <<"B","o">>, groupName |-> <<"b","O">>, groupLink |-> BADLINK] }

\* the submissions: a form body, with or without a groupImage file
Submissions ==
  { [body |-> b, hasFile |-> FALSE] : b \in ValidBodies \cup InvalidBodies }
  \cup { [body |-> b, hasFile |-> TRUE] :
           b \in { [username |-> <<"B","o">>, groupName |-> <<"K","a","b">>,
                    groupLink |-> LINK],
                   [groupName |-> <<"b","O">>, groupLink |-> LINK],
                   [username |-> <<"B","o">>, groupName |-> <<"b","O">>,
                    groupLink |-> BADLINK] } }

\* req.query: q absent or a string
QueryObjs == { [q |-> s] : s \in Queries } \cup { [noq |-> <<>>] }

\* ---------------------------------------------------------------- records
Null == <<>>

ImagePath(file) == IF file = Null THEN Null ELSE <<"/uploads/">> \o file

NewGroup_Swapped(body, file, t1, t2) ==
  [ id |-> t1,
    username |-> Field(body, "groupName"),
    groupName |-> Field(body, "username"),
    groupLink |-> Field(body, "groupLink"),
    imagePath |-> ImagePath(file),
    createdAt |-> t2 ]

NewGroup(body, file, t1, t2) ==
  [ id |-> t1,
    username |-> Field(body, "username"),
    groupName |-> Field(body, "groupName"),
    groupLink |-> Field(body, "groupLink"),
    imagePath |-> ImagePath(file),
    createdAt |-> t2 ]

\* JSON.stringify / JSON.parse of the document { groups: [...] }
StringifyGroup(g) ==
  <<g.id, g.username, g.groupName, g.groupLink, g.imagePath, g.createdAt>>

ParseGroup(t) ==
  [ id |-> t[1], username |-> t[2], groupName |-> t[3],
    groupLink |-> t[4], imagePath |-> t[5], createdAt |-> t[6] ]

Stringify(d) == [i \in 1..Len(d.groups) |-> StringifyGroup(d.groups[i])]

Parse(text) == [groups |-> [i \in 1..Len(text) |-> ParseGroup(text[i])]]

\* db.data: null, or the document object
NullData == [isNull |-> TRUE, groups |-> <<>>]
Data(d) == [isNull |-> FALSE, groups |-> d.groups]
defaultData == [groups |-> <<>>]

\* the file: absent (ENOENT), or its text
NoFile == [exists |-> FALSE, text |-> <<>>]
File(text) == [exists |-> TRUE, text |-> text]

\* Low.read(): this.data = await adapter.read(), null when the file is absent
ReadData(f) == IF f.exists THEN Data(Parse(f.text)) ELSE NullData

OrDefault_Always(d) == Data(defaultData)

\* db.data = db.data || defaultData
OrDefault(d) == IF d.isNull THEN Data(defaultData) ELSE d

\* ---------------------------------------------------------------- list
Matches_NameOnly(g, q) == includes(toLowerCase(g.groupName), q)

Matches(g, q) ==
  \/ includes(toLowerCase(g.groupName), q)
  \/ includes(toLowerCase(g.username), q)

Filter(groups, q) == SelectSeq(groups, LAMBDA g : Matches(g, q))

\* Array.prototype.sort with (a, b) => b.createdAt - a.createdAt: a stable
\* sort, descending by createdAt
RECURSIVE InsertDesc(_, _)
InsertDesc(x, s) ==
  IF s = <<>> THEN <<x>>
  ELSE IF Head(s).createdAt >= x.createdAt
       THEN <<Head(s)>> \o InsertDesc(x, Tail(s))
       ELSE <<x>> \o s

RECURSIVE SortFrom(_, _)
SortFrom(s, acc) ==
  IF s = <<>> THEN acc ELSE SortFrom(Tail(s), InsertDesc(Head(s), acc))

SortDesc_Unsorted(s) == s

SortDesc(s) == SortFrom(s, <<>>)

\* the array the list handler answers with
ListGroups(groups, q) ==
  SortDesc(IF q # <<>> THEN Filter(groups, q) ELSE groups)

searchQuery(query) ==
  toLowerCase(IF "q" \in DOMAIN query THEN query.q ELSE <<>>)

\* ---------------------------------------------------------------- state
VARIABLES
  up,       \* the server listens (startServer reached app.listen)
  disk,     \* db.json: NoFile or File(text)
  booted,   \* the latest startServer read a document holding records
  uploads,  \* file names in the uploads directory
  clock,    \* Date.now()
  req,      \* the requests in flight, one per slot; before is db.json as
            \* it was when the request arrived (kept for the properties)
  writeQ    \* writes handed to the adapter and not yet on disk, in order

vars == <<up, disk, booted, uploads, clock, req, writeQ>>

Idle ==
  [ kind |-> "none", pc |-> "idle", body |-> <<>>, file |-> Null,
    query |-> <<>>, before |-> NoFile,
    rd |-> [ok |-> TRUE, file |-> NoFile],
    status |-> 0, error |-> "", json |-> <<>> ]

Init ==
  /\ up = FALSE
  /\ disk = NoFile
  /\ booted = FALSE
  /\ uploads = {}
  /\ clock = 1
  /\ req = [r \in Reqs |-> Idle]
  /\ writeQ = <<>>

\* adapter.write: the whole file is replaced by the new text
WriteFile_Append(old, text) == File(old.text \o text)

WriteFile(old, text) == File(text)

\* ---------------------------------------------------------------- startup
\* startServer: read db.json, fall back to the default, write it back, listen.
\* A failure rejects startServer and the server does not listen.
StartServer(fault) ==
  /\ \A r \in Reqs : req[r].pc = "idle"
  /\ writeQ = <<>>
  /\ IF fault = "read"
     THEN /\ up' = FALSE
          /\ booted' = FALSE
          /\ UNCHANGED disk
     ELSE /\ booted' = (disk.exists /\ disk.text # <<>>)
          /\ IF fault = "write"
             THEN /\ up' = FALSE
                  /\ UNCHANGED disk
             ELSE /\ up' = TRUE
                  /\ disk' = WriteFile(disk, Stringify(OrDefault(ReadData(disk))))
  /\ UNCHANGED <<uploads, clock, req, writeQ>>

\* ---------------------------------------------------------------- clock
\* Date.now() is the wall clock: it advances, and an adjustment sets it back
Tick ==
  /\ clock < MaxClock
  /\ clock' = clock + 1
  /\ UNCHANGED <<up, disk, booted, uploads, req, writeQ>>

ClockSetBack ==
  /\ clock > 1
  /\ clock' = clock - 1
  /\ UNCHANGED <<up, disk, booted, uploads, req, writeQ>>

\* ---------------------------------------------------------------- multer
\* filename: fieldname-Date.now()-random + extname(originalname)
\* Math.round(Math.random() * 1E9)
Rands == {7}

Filename(t, rnd) == <<"groupImage", "-", t, "-", rnd, ".png">>

\* a new request takes the first free slot
FreeSlot(r) == req[r].pc = "idle" /\ \A s \in Reqs : s < r => req[s].pc # "idle"

\* the create requests that have not been answered yet
Creating ==
  { s \in Reqs : req[s].kind = "create" /\ req[s].pc \in {"reading", "resume", "writing"} }

\* upload.single('groupImage') runs before the handler: a submitted file is
\* stored, then the handler starts and calls db.read()
PostArrive(r, body, hasFile) ==
  /\ up
  /\ FreeSlot(r)
  /\ Len(disk.text) + Cardinality(Creating) < MaxGroups
  /\ IF hasFile
     THEN \E rnd \in Rands :
            /\ uploads' = uploads \cup {Filename(clock, rnd)}
            /\ req' = [req EXCEPT ![r] =
                 [Idle EXCEPT !.kind = "create", !.pc = "reading",
                              !.before = disk,
                              !.body = body, !.file = Filename(clock, rnd)]]
     ELSE /\ uploads' = uploads
          /\ req' = [req EXCEPT ![r] =
               [Idle EXCEPT !.kind = "create", !.pc = "reading",
                            !.before = disk, !.body = body]]
  /\ UNCHANGED <<up, disk, booted, clock, writeQ>>

GetArrive(r, query) ==
  /\ up
  /\ FreeSlot(r)
  /\ req' = [req EXCEPT ![r] =
       [Idle EXCEPT !.kind = "list", !.pc = "reading",
                    !.before = disk, !.query = query]]
  /\ UNCHANGED <<up, disk, booted, uploads, clock, writeQ>>

\* ---------------------------------------------------------------- db.read
\* the adapter reads db.json (or fails); the handler resumes in a later step
ReadFile(r, ok) ==
  /\ req[r].pc = "reading"
  /\ req' = [req EXCEPT ![r].pc = "resume",
                        ![r].rd = IF ok THEN [ok |-> TRUE, file |-> disk]
                                        ELSE [ok |-> FALSE, file |-> NoFile]]
  /\ UNCHANGED <<up, disk, booted, uploads, clock, writeQ>>

\* ---------------------------------------------------------------- POST
Respond(r, status, error, json) ==
  [req EXCEPT ![r].pc = "done", ![r].status = status,
              ![r].error = error, ![r].json = json]

\* app.post('/api/groups') after await db.read(): validate, build the record,
\* push it on db.data.groups (d is db.data as read, pushed is db.data after
\* the push) and hand the document to db.write()
PostResume(r) ==
  /\ req[r].pc = "resume"
  /\ req[r].kind = "create"
  /\ IF ~req[r].rd.ok
     THEN /\ req' = Respond(r, 500, "Server error while adding group.", <<>>)
          /\ UNCHANGED writeQ
     ELSE LET d == ReadData(req[r].rd.file) IN
          IF MissingField(req[r].body)
          THEN /\ req' = Respond(r, 400, "All fields are required.", <<>>)
               /\ UNCHANGED writeQ
          ELSE IF ~startsWith(Field(req[r].body, "groupLink"), PREFIX)
          THEN /\ req' = Respond(r, 400,
                           "Please enter a valid WhatsApp group link.", <<>>)
               /\ UNCHANGED writeQ
          ELSE IF d.isNull
          THEN /\ req' = Respond(r, 500, "Server error while adding group.", <<>>)
               /\ UNCHANGED writeQ
          ELSE LET g == NewGroup(req[r].body, req[r].file, clock, clock)
                   pushed == Data([groups |-> Append(d.groups, g)])
               IN /\ writeQ' = Append(writeQ, [r |-> r, text |-> Stringify(pushed)])
                  /\ req' = [req EXCEPT ![r].pc = "writing", ![r].json = <<g>>]
  /\ UNCHANGED <<up, disk, booted, uploads, clock>>

\* the adapter finishes the oldest pending write, or fails it; the handler
\* then answers 201 with the record, or 500 from its catch
WriteDone(ok) ==
  /\ writeQ # <<>>
  /\ LET w == Head(writeQ) IN
     IF ok
     THEN /\ disk' = WriteFile(disk, w.text)
          /\ req' = Respond(w.r, 201, "", req[w.r].json)
     ELSE /\ req' = Respond(w.r, 500, "Server error while adding group.", <<>>)
          /\ UNCHANGED disk
  /\ writeQ' = Tail(writeQ)
  /\ UNCHANGED <<up, booted, uploads, clock>>

\* ---------------------------------------------------------------- GET
\* app.get('/api/groups') after await db.read().  The handler has no catch:
\* when db.read() rejects, or db.data is null, the handler's promise rejects
\* and the handler itself sends nothing; whether the framework answers for
\* it depends on the framework (parameter framework), so both outcomes are
\* possible.
GetResume(r, framework) ==
  /\ req[r].pc = "resume"
  /\ req[r].kind = "list"
  /\ IF ~req[r].rd.ok \/ ~req[r].rd.file.exists
     THEN /\ req' = IF framework
                    THEN Respond(r, 500, "Internal Server Error", <<>>)
                    ELSE [req EXCEPT ![r].pc = "hung"]
     ELSE LET d == ReadData(req[r].rd.file)
              q == searchQuery(req[r].query)
          IN /\ req' = Respond(r, 200, "", ListGroups(d.groups, q))
  /\ UNCHANGED <<up, disk, booted, uploads, clock, writeQ>>

\* the client has its answer (or gave up on a request that was never answered)
Recycle(r) ==
  /\ req[r].pc \in {"done", "hung"}
  /\ req' = [req EXCEPT ![r] = Idle]
  /\ UNCHANGED <<up, disk, booted, uploads, clock, writeQ>>

\* The service with its requests handled one at a time (a request arrives
\* when the one before it has been answered): every input, storage faults,
\* restarts and clock adjustments.
Next ==
  \/ \E fault \in {"none", "read", "write"} : StartServer(fault)
  \/ Tick
  \/ ClockSetBack
  \/ \E sub \in Submissions : PostArrive(1, sub.body, sub.hasFile)
  \/ \E query \in QueryObjs : GetArrive(1, query)
  \/ \E r \in Reqs, ok \in BOOLEAN : ReadFile(r, ok)
  \/ \E r \in Reqs : PostResume(r)
  \/ \E ok \in BOOLEAN : WriteDone(ok)
  \/ \E r \in Reqs, framework \in BOOLEAN : GetResume(r, framework)
  \/ \E r \in Reqs : Recycle(r)

Spec == Init /\ [][Next]_vars

\* The service with requests handled concurrently and interleaved at their
\* awaits, on a storage that does not fail.
NextRace ==
  \/ StartServer("none")
  \/ Tick
  \/ \E r \in Reqs, body \in ValidBodies : PostArrive(r, body, FALSE)
  \/ \E r \in Reqs : GetArrive(r, [noq |-> <<>>])
  \/ \E r \in Reqs : ReadFile(r, TRUE)
  \/ \E r \in Reqs : PostResume(r)
  \/ WriteDone(TRUE)
  \/ \E r \in Reqs : GetResume(r, FALSE)
  \/ \E r \in Reqs : Recycle(r)

SpecRace == Init /\ [][NextRace]_vars

\* ================================================================ properties
Fields == {"username", "groupName", "groupLink"}

\* some text field was not sent or is empty
SomeFieldMissing(body) ==
  \E k \in Fields : k \notin DOMAIN body \/ Len(body[k]) = 0

\* l is 'https://chat.whatsapp.com/' followed by anything
HasPrefix(l) == \E k \in 0..Len(l) : SubSeq(l, 1, k) = PREFIX

ValidSubmission(body) ==
  /\ ~SomeFieldMissing(body)
  /\ HasPrefix(body.groupLink)

\* s, lower-cased, holds q, lower-cased, at some position
ContainsCI(s, q) ==
  \E i \in 0..Len(s) :
    /\ i + Len(q) <= Len(s)
    /\ \A k \in 1..Len(q) : Lower(s[i + k]) = Lower(q[k])

Range(s) == { s[i] : i \in DOMAIN s }
Count(s, x) == Cardinality({ i \in DOMAIN s : s[i] = x })
RemoveAt(s, i) == SubSeq(s, 1, i - 1) \o SubSeq(s, i + 1, Len(s))

\* the records of a document, and what a list request without q returns for it
Stored(f) == Parse(f.text).groups
Listed(f) == ListGroups(Stored(f), <<>>)

\* request r is answered in this step
Answered(r) == req[r].pc \in {"resume", "writing"} /\ req'[r].pc = "done"

\* C1: a valid create (three non-empty text fields, link with the WhatsApp
\* prefix) handled on its own is answered 201 with the record, unless reading
\* or writing the document failed (then 500); and when it is answered 201, a
\* list of the document holds exactly one record more than a list of the
\* document as it was before the create, that record carrying the submitted
\* username, groupName and groupLink, with imagePath null when no file came.
C1_ValidCreateAddsOneRecord ==
  [][ \A r \in Reqs :
        (Answered(r) /\ req[r].kind = "create" /\ ValidSubmission(req[r].body)) =>
          /\ \/ req'[r].status = 201
             \/ req'[r].status = 500 /\ (~req[r].rd.ok \/ WriteDone(FALSE))
          /\ req'[r].status = 201 =>
               /\ Len(Listed(disk')) = Len(Listed(req[r].before)) + 1
               /\ \E i \in 1..Len(Listed(disk')) :
                    LET g == Listed(disk')[i] IN
                    /\ RemoveAt(Listed(disk'), i) = Listed(req[r].before)
                    /\ g.username = req[r].body.username
                    /\ g.groupName = req[r].body.groupName
                    /\ g.groupLink = req[r].body.groupLink
                    /\ (req[r].file = Null => g.imagePath = Null)
                    /\ req'[r].json = <<g>> ]_vars

C1_Witness ==
  \E r \in Reqs :
    /\ req[r].kind = "create" /\ req[r].pc = "done" /\ req[r].status = 201
    /\ req[r].file = Null
    /\ req[r].before.text # <<>>
    /\ Len(disk.text) = Len(req[r].before.text) + 1
    /\ req[r].json[1].imagePath = Null
    /\ req[r].json[1].username = <<"a","k">>

\* C2: a create with a missing or empty text field is answered 400 "All
\* fields are required." once the document has been read (500 when that read
\* failed), also when its link is malformed as well; it hands nothing to the
\* writer, and the document is the same before and after the request.
C2_MissingFieldRejected ==
  [][ \A r \in Reqs :
        (Answered(r) /\ req[r].kind = "create" /\ SomeFieldMissing(req[r].body)) =>
          /\ req[r].pc = "resume"
          /\ req[r].rd.ok =>
               req'[r].status = 400 /\ req'[r].error = "All fields are required."
          /\ ~req[r].rd.ok => req'[r].status = 500
          /\ writeQ' = writeQ
          /\ disk' = disk
          /\ disk' = req[r].before ]_vars

C2_Witness ==
  \E r \in Reqs :
    /\ req[r].kind = "create" /\ req[r].pc = "done" /\ req[r].status = 400
    /\ "username" \in DOMAIN req[r].body /\ req[r].body.username = <<>>
    /\ ~HasPrefix(req[r].body.groupLink)
    /\ disk.text # <<>>
    /\ disk = req[r].before

\* C3: a create whose three text fields are non-empty and whose link does not
\* start with 'https://chat.whatsapp.com/' is answered 400 once the document
\* has been read (500 when that read failed); it hands nothing to the writer,
\* and the document is the same before and after the request.
C3_InvalidLinkRejected ==
  [][ \A r \in Reqs :
        (/\ Answered(r)
         /\ req[r].kind = "create"
         /\ ~SomeFieldMissing(req[r].body)
         /\ ~HasPrefix(req[r].body.groupLink)) =>
          /\ req[r].pc = "resume"
          /\ req[r].rd.ok => req'[r].status = 400
          /\ ~req[r].rd.ok => req'[r].status = 500
          /\ writeQ' = writeQ
          /\ disk' = disk
          /\ disk' = req[r].before ]_vars

C3_Witness ==
  \E r \in Reqs :
    /\ req[r].kind = "create" /\ req[r].pc = "done" /\ req[r].status = 400
    /\ ~SomeFieldMissing(req[r].body)
    /\ req[r].body.groupLink = BADLINK
    /\ disk.text # <<>>
    /\ disk = req[r].before

\* the stored records a list request with this query object has to return
QueryText(query) == IF "q" \in DOMAIN query THEN query.q ELSE <<>>
Wanted(g, query) ==
  \/ Len(QueryText(query)) = 0
  \/ ContainsCI(g.groupName, QueryText(query))
  \/ ContainsCI(g.username, QueryText(query))

\* C4: a list request answered 200 returns exactly the records of the
\* document it read whose groupName or username contains q, both lower-cased
\* (each as often as it is stored, none other), and all of them when q is
\* empty or absent.
C4_SearchReturnsMatches ==
  \A r \in Reqs :
    (req[r].kind = "list" /\ req[r].pc = "done" /\ req[r].status = 200) =>
      LET stored == Stored(req[r].rd.file)
          wanted == SelectSeq(stored, LAMBDA g : Wanted(g, req[r].query))
      IN /\ Range(req[r].json) = Range(wanted)
         /\ \A x \in Range(wanted) : Count(req[r].json, x) = Count(wanted, x)
         /\ Len(QueryText(req[r].query)) = 0 => Len(req[r].json) = Len(stored)

C4_Witness ==
  \E r \in Reqs :
    /\ req[r].kind = "list" /\ req[r].pc = "done" /\ req[r].status = 200
    /\ req[r].query = [q |-> <<"A","k">>]
    /\ Len(req[r].rd.file.text) = 2
    /\ Len(req[r].json) = 1
    /\ req[r].json[1].username = <<"a","k">>

\* C5: the array a list request returns is in descending order of createdAt,
\* whatever the order of the records in the document it read.
C5_ListSortedDescending ==
  \A r \in Reqs :
    (req[r].kind = "list" /\ req[r].pc = "done" /\ req[r].status = 200) =>
      \A i \in 1..(Len(req[r].json) - 1) :
        req[r].json[i].createdAt >= req[r].json[i + 1].createdAt

C5_Witness ==
  \E r \in Reqs :
    /\ req[r].kind = "list" /\ req[r].pc = "done" /\ req[r].status = 200
    /\ Len(req[r].json) = 2
    /\ req[r].json[1].createdAt > req[r].json[2].createdAt
    /\ Stored(req[r].rd.file)[1].createdAt < Stored(req[r].rd.file)[2].createdAt

\* C6: no two records of the persisted collection have the same id.
C6_IdsUnique ==
  \A i, j \in 1..Len(disk.text) :
    i # j => Stored(disk)[i].id # Stored(disk)[j].id

\* C7: a restart leaves an existing document as it is (so every list request
\* returns after it what it returned before it), and writes the empty
\* collection only when there was no document.
C7_RestartPreservesRecords ==
  [][ (\E fault \in {"none", "read", "write"} : StartServer(fault)) =>
        /\ disk.exists =>
             /\ disk' = disk
             /\ \A query \in QueryObjs :
                  ListGroups(Stored(disk'), searchQuery(query))
                    = ListGroups(Stored(disk), searchQuery(query))
        /\ (~disk.exists /\ up') => disk' = File(<<>>) ]_vars

C7_Witness ==
  /\ up
  /\ booted
  /\ Len(disk.text) = 2
  /\ \A r \in Reqs : req[r].pc = "idle"

\* C8: a list or create request during which reading or writing the document
\* failed is answered 500: it is not left without an answer.
C8_StorageFaultAnswered500 ==
  \A r \in Reqs :
    (req[r].kind \in {"list", "create"} /\ ~req[r].rd.ok /\ req[r].pc # "resume") =>
      (req[r].pc = "done" /\ req[r].status = 500)

\* C9: when a create is answered 201 the document is what that create read
\* plus its own record, whatever was written since it read: a record written
\* in between by a concurrent create is gone, though that create was answered
\* 201 too.
C9_LaterWriteOverwrites ==
  [][ \A r \in Reqs :
        (Answered(r) /\ req[r].kind = "create" /\ req'[r].status = 201) =>
          /\ Stored(disk') = Append(Stored(req[r].rd.file), req[r].json[1])
          /\ \A x \in Range(Stored(disk)) :
               x \notin Range(Stored(req[r].rd.file)) /\ x # req[r].json[1]
                 => x \notin Range(Stored(disk')) ]_vars

C9_Witness ==
  \E a, b \in Reqs :
    /\ a # b
    /\ req[a].kind = "create" /\ req[a].pc = "done" /\ req[a].status = 201
    /\ req[b].kind = "create" /\ req[b].pc = "done" /\ req[b].status = 201
    /\ req[a].rd = req[b].rd
    /\ req[a].json # req[b].json
    /\ Len(disk.text) = Len(req[a].rd.file.text) + 1
    /\ req[b].json[1] \in Range(Stored(disk))
    /\ req[a].json[1] \notin Range(Stored(disk))

\* C10: a create that carried a file and is answered 400 has left no file in
\* the uploads directory.
C10_NoUploadOnRejection ==
  \A r \in Reqs :
    (/\ req[r].kind = "create"
     /\ req[r].pc = "done"
     /\ req[r].status = 400
     /\ req[r].file # Null) => req[r].file \notin uploads

====
